---- MODULE Spec2Model ----
(***************************************************************************)
(* Model of the error-aggregation package of gzwillyy/components           *)
(* (src/errors/aggregate.go): the aggregate type, its Error/Is/Errors      *)
(* methods and the utilities NewAggregate, FilterOut, Flatten, Reduce,     *)
(* CreateAggregateFromMessageCountMap and AggregateGoroutines, and of its  *)
(* string sets (src/errors/sets.go).                                       *)
(*                                                                         *)
(* Spec      the calls of the package on the error values a caller lists   *)
(* GoSpec    AggregateGoroutines alone, with fair scheduling               *)
(* HeapSpec  the aggregates as slices over backing arrays in memory        *)
(* SetsSpec  the string sets as maps in memory                             *)
(*                                                                         *)
(* An error value is a record with a "kind" field:                         *)
(*   [kind |-> "nil"]                         the nil error                *)
(*   [kind |-> "plain", id, msg, wraps]       a non-aggregate error; id is *)
(*       its identity (pointer), msg its Error() text, wraps the id of the *)
(*       error that Unwrap() returns (0: it has no Unwrap)                 *)
(*   [kind |-> "aggregate", errs]             the package's own type       *)
(*       `aggregate []error`                                               *)
(*   [kind |-> "Aggregate", errs]             an implementation of the     *)
(*       exported Aggregate interface that is not the type `aggregate`.    *)
(*       Its Errors() returns errs, a non-empty list without nil entries,  *)
(*       and its Error() and Is() are taken to answer as the package's own *)
(*       aggregate holding the same list does. Reduce alone is also given  *)
(*       one whose Errors() is empty.                                      *)
(***************************************************************************)
EXTENDS Integers, Sequences, FiniteSets, TLC

VARIABLES
    errlist,    \* the list of errors the caller has assembled
    call,       \* the call the caller made: its name and arguments
    ret,        \* what the call returned
    gpc,        \* AggregateGoroutines: where the calling goroutine is
    wpc,        \* AggregateGoroutines: where each worker goroutine is
    errChan,    \* AggregateGoroutines: the buffered channel's content
    errs,       \* AggregateGoroutines: the local slice errs
    i,          \* AggregateGoroutines: the receive loop's counter
    sendOrder,  \* history: the workers in the order their sends completed
    heap,       \* the backing arrays of the aggregates, by address
    held,       \* the address of the array of the list Errors() gave the caller
    made,       \* history: each aggregate as it was when it was constructed
    sets,       \* the maps of the string sets, by address
    lastNamed,  \* history: for each set and item, the last call that named it
    popped,     \* history: the members NewString gave the set, the keys PopAny took
    commands,   \* the Command objects of package app, by address
    app,        \* the App object: whether NewApp made it, its commands and cmd
    rpc,        \* RetryUntilTimeout: where the call is
    ctxErr,     \* RetryUntilTimeout: ctx.Err(), nil until ctx is done
    timer,      \* RetryUntilTimeout: the timer t and the time until it fires
    after,      \* RetryUntilTimeout: the time until time.After(interval) fires
    lastDo,     \* history: what the latest completed call of do returned
    elapsed     \* history: the time since RetryUntilTimeout was called

gvars == <<gpc, wpc, errChan, errs, i, sendOrder>>
hvars == <<heap, held, made>>
svars == <<sets, lastNamed>>
lvars == <<popped>>
avars == <<commands, app>>
rvars == <<rpc, ctxErr, timer, after, lastDo, elapsed>>
xvars == <<lvars, avars, rvars>>
\* The variables that the calls on a list of error values leave alone.
ovars == <<hvars, svars, xvars>>
vars == <<errlist, call, ret, gpc, wpc, errChan, errs, i, sendOrder, heap, held,
          made, sets, lastNamed, popped, commands, app, rpc, ctxErr, timer,
          after, lastDo, elapsed>>

\* Bounds: the number of nodes (errors, nil entries and wrappers) of the
\* caller's list, the length of the caller's list, and the number of functions
\* handed to AggregateGoroutines.
MaxNodes == 5
MaxLen == 3
MaxFuncs == 3

----------------------------------------------------------------------------
\* Error values

Nil == [kind |-> "nil"]

\* errors.New(msg): a fresh identity with message msg and no Unwrap.
errorsNew(id, msg) == [kind |-> "plain", id |-> id, msg |-> msg, wraps |-> 0]

\* fmt.Errorf(prefix + "%w", e): a fresh identity whose Unwrap() returns e.
fmtErrorfW(id, prefix, e) ==
    [kind |-> "plain", id |-> id, msg |-> prefix \o e.msg, wraps |-> e.id]

\* e1 and e2 have the same text and distinct identities; e2 wraps e1.
e1 == errorsNew(1, "disk full")
e2 == fmtErrorfW(2, "", e1)
e3 == errorsNew(3, "network timeout")

Plain == {e1, e2, e3}

PlainById(id) == CHOOSE e \in Plain : e.id = id

\* type aggregate []error
aggregate(list) == [kind |-> "aggregate", errs |-> list]

\* A value of another type that implements the Aggregate interface.
extAggregate(list) == [kind |-> "Aggregate", errs |-> list]

\* err.(Aggregate) succeeds
IsAggregate(err) == err.kind \in {"aggregate", "Aggregate"}

----------------------------------------------------------------------------
\* NewAggregate

\* NewAggregate without the second emptiness test: an all-nil list gives an
\* aggregate of no errors.
NewAggregate_EmptyAggregate(list) ==
    IF Len(list) = 0 THEN Nil
    ELSE aggregate(SelectSeq(list, LAMBDA e : e # Nil))

\* NewAggregate whose loop stops at the first nil entry instead of skipping it.
NewAggregate_StopAtNil(list) ==
    LET nils == {k \in 1..Len(list) : list[k] = Nil}
        stop == IF nils = {} THEN Len(list) + 1
                ELSE CHOOSE k \in nils : \A j \in nils : k <= j
    IN  IF stop = 1 THEN Nil ELSE aggregate(SubSeq(list, 1, stop - 1))

NewAggregate(list) ==
    IF Len(list) = 0 THEN Nil
    ELSE LET kept == SelectSeq(list, LAMBDA e : e # Nil)
         IN  IF Len(kept) = 0 THEN Nil ELSE aggregate(kept)

\* Errors() that leaves out an error whose text an earlier error already has.
Errors_DedupByText(agg) ==
    LET list == agg.errs
        dup(k) == \E j \in 1..(k - 1) :
                      /\ list[j].kind = "plain"
                      /\ list[k].kind = "plain"
                      /\ list[j].msg = list[k].msg
        keep == {k \in 1..Len(list) : ~dup(k)}
        nth(n) == CHOOSE k \in keep : Cardinality({j \in keep : j < k}) = n - 1
    IN  [n \in 1..Cardinality(keep) |-> list[nth(n)]]

\* aggregate.Errors / Aggregate.Errors
Errors(agg) == agg.errs

----------------------------------------------------------------------------
\* aggregate.visit hands the errors of agg to the callback f one after the
\* other and returns true as soon as one call of f returns true. This is the
\* sequence of the values f is called with when no call returns true: an
\* element of type aggregate is visited recursively, an element of another
\* Aggregate type has its Errors() handed to f directly, any other element is
\* handed to f itself.
RECURSIVE aggregate_visit(_)

\* visit without the recursion into an element of type aggregate.
RECURSIVE aggregate_visit_SkipNested(_)
aggregate_visit_SkipNested(agg) ==
    IF Len(agg) = 0 THEN <<>>
    ELSE LET err == Head(agg)
             here == CASE err.kind = "aggregate" -> <<>>
                       [] err.kind = "Aggregate" -> err.errs
                       [] OTHER -> <<err>>
         IN  here \o aggregate_visit_SkipNested(Tail(agg))

aggregate_visit(agg) ==
    IF Len(agg) = 0 THEN <<>>
    ELSE LET err == Head(agg)
             here == CASE err.kind = "aggregate" -> aggregate_visit(err.errs)
                       [] err.kind = "Aggregate" -> Errors(err)
                       [] OTHER -> <<err>>
         IN  here \o aggregate_visit(Tail(agg))

RECURSIVE Error(_), aggregate_Error(_), visitError(_, _)

\* The callback of aggregate.Error without the seenerrs.Has test.
RECURSIVE visitError_NoDedup(_, _)
visitError_NoDedup(st, visited) ==
    IF Len(visited) = 0 THEN st
    ELSE LET msg == Error(Head(visited))
             seen == st.seenerrs \cup {msg}
             sep == IF st.result # "" THEN ", " ELSE ""
         IN  visitError_NoDedup(
                 [seenerrs |-> seen, result |-> st.result \o sep \o msg],
                 Tail(visited))

\* The callback of aggregate.Error applied to the visited errors in order;
\* st is the closure's state (seenerrs, result).
visitError(st, visited) ==
    IF Len(visited) = 0 THEN st
    ELSE LET msg == Error(Head(visited))
             seen == st.seenerrs \cup {msg}
             sep == IF Cardinality(seen) > 1 THEN ", " ELSE ""
             next == IF msg \in st.seenerrs THEN st
                     ELSE [seenerrs |-> seen, result |-> st.result \o sep \o msg]
         IN  visitError(next, Tail(visited))

\* aggregate.Error without the single-element case: brackets around one error.
aggregate_Error_Brackets(agg) ==
    IF Len(agg) = 0 THEN ""
    ELSE LET st == visitError([seenerrs |-> {}, result |-> ""], aggregate_visit(agg))
         IN  "[" \o st.result \o "]"

\* func (agg aggregate) Error() string
aggregate_Error(agg) ==
    IF Len(agg) = 0 THEN ""
    ELSE IF Len(agg) = 1 THEN Error(agg[1])
    ELSE LET st == visitError([seenerrs |-> {}, result |-> ""], aggregate_visit(agg))
         IN  IF Cardinality(st.seenerrs) = 1 THEN st.result
             ELSE "[" \o st.result \o "]"

\* err.Error() by the dynamic type of err
Error(err) ==
    IF IsAggregate(err) THEN aggregate_Error(err.errs) ELSE err.msg

RECURSIVE errorsIs(_, _), aggregate_Is(_, _)

\* func (agg aggregate) Is(target error) bool
aggregate_Is(agg, target) ==
    LET visited == aggregate_visit(agg)
    IN  \E k \in 1..Len(visited) : errorsIs(visited[k], target)

\* errors.Is of the standard library: the target is compared when its type is
\* comparable (a slice type such as aggregate is not), then err's own Is method
\* is asked, then err is unwrapped.
errorsIs(err, target) ==
    IF err = Nil \/ target = Nil THEN err = target
    ELSE \/ target.kind = "plain" /\ err = target
         \/ IsAggregate(err) /\ aggregate_Is(err.errs, target)
         \/ err.kind = "plain" /\ err.wraps # 0
            /\ errorsIs(PlainById(err.wraps), target)

----------------------------------------------------------------------------
\* Matchers: the predicates the callers of FilterOut pass.

matchAll == "matchAll"
isE1 == "isE1"
isE2 == "isE2"
isTimeout == "isTimeout"

\* type Matcher func(error) bool, applied
Match(fn, err) ==
    CASE fn = matchAll -> TRUE
      [] fn = isE1 -> errorsIs(err, e1)
      [] fn = isE2 -> err = e2
      [] fn = isTimeout -> Error(err) = "network timeout"

MatcherLists == {<<>>, <<matchAll>>, <<isE2>>, <<isE1>>, <<isE2, isTimeout>>}

\* matchesError that asks for every matcher to match.
matchesError_All(err, fns) == \A k \in 1..Len(fns) : Match(fns[k], err)

\* matchesError: true if any Matcher returns true.
matchesError(err, fns) == \E k \in 1..Len(fns) : Match(fns[k], err)

RECURSIVE FilterOut(_, _), filterErrors(_, _)

\* filterErrors that appends the errors of a filtered nested aggregate instead
\* of the aggregate, flattening the result.
RECURSIVE filterErrors_Flattening(_, _)
filterErrors_Flattening(list, fns) ==
    IF Len(list) = 0 THEN <<>>
    ELSE LET r == FilterOut(Head(list), fns)
             here == IF r = Nil THEN <<>>
                     ELSE IF IsAggregate(r) THEN r.errs
                     ELSE <<r>>
         IN  here \o filterErrors_Flattening(Tail(list), fns)

filterErrors(list, fns) ==
    IF Len(list) = 0 THEN <<>>
    ELSE LET r == FilterOut(Head(list), fns)
         IN  (IF r # Nil THEN <<r>> ELSE <<>>) \o filterErrors(Tail(list), fns)

FilterOut(err, fns) ==
    IF err = Nil THEN Nil
    ELSE IF IsAggregate(err) THEN NewAggregate(filterErrors(Errors(err), fns))
    ELSE IF ~matchesError(err, fns) THEN err
    ELSE Nil

RECURSIVE Flatten(_), flattenList(_)

\* The loop of Flatten appending the Errors() of a nested Aggregate as they
\* are, without the recursive call.
RECURSIVE flattenList_OneLevel(_)
flattenList_OneLevel(list) ==
    IF Len(list) = 0 THEN <<>>
    ELSE LET err == Head(list)
             here == IF IsAggregate(err) THEN err.errs
                     ELSE IF err # Nil THEN <<err>> ELSE <<>>
         IN  here \o flattenList_OneLevel(Tail(list))

\* The loop of Flatten descending only into an element of the type aggregate,
\* as visit does: the Errors() of an Aggregate of another type are appended as
\* they are.
RECURSIVE flattenList_LikeVisit(_)
flattenList_LikeVisit(list) ==
    IF Len(list) = 0 THEN <<>>
    ELSE LET err == Head(list)
             here == CASE err.kind = "aggregate" -> flattenList_LikeVisit(err.errs)
                       [] err.kind = "Aggregate" -> err.errs
                       [] OTHER -> IF err # Nil THEN <<err>> ELSE <<>>
         IN  here \o flattenList_LikeVisit(Tail(list))

\* The loop of Flatten over agg.Errors(): the value of result after it.
flattenList(list) ==
    IF Len(list) = 0 THEN <<>>
    ELSE LET err == Head(list)
             here == IF IsAggregate(err)
                     THEN LET r == Flatten(err)
                          IN  IF r # Nil THEN Errors(r) ELSE <<>>
                     ELSE IF err # Nil THEN <<err>> ELSE <<>>
         IN  here \o flattenList(Tail(list))

Flatten(agg) ==
    IF agg = Nil THEN Nil ELSE NewAggregate(flattenList(Errors(agg)))

\* Reduce that reduces the sole element of an Aggregate again.
RECURSIVE Reduce_Again(_)
Reduce_Again(err) ==
    IF IsAggregate(err) /\ err # Nil
    THEN CASE Len(Errors(err)) = 1 -> Reduce_Again(Errors(err)[1])
           [] Len(Errors(err)) = 0 -> Nil
           [] OTHER -> err
    ELSE err

Reduce(err) ==
    IF IsAggregate(err) /\ err # Nil
    THEN CASE Len(Errors(err)) = 1 -> Errors(err)[1]
           [] Len(Errors(err)) = 0 -> Nil
           [] OTHER -> err
    ELSE err

----------------------------------------------------------------------------
\* CreateAggregateFromMessageCountMap. A MessageCountMap is [isNil, counts]:
\* counts is the function from the map's keys to their counts. order is the
\* order in which the range loop yields the keys; the k-th error the loop
\* creates with fmt.Errorf has the identity FreshId + k.

FreshId == 10

MsgKeys == {"disk full", "network timeout"}
Counts == {1, 2, 3}

MessageCountMaps ==
    {[isNil |-> TRUE, counts |-> <<>>]} \cup
    UNION {{[isNil |-> FALSE, counts |-> f] : f \in [keys -> Counts]} :
           keys \in SUBSET MsgKeys}

\* The orders in which a range loop over m can yield its keys.
RangeOrders(m) ==
    LET keys == DOMAIN m.counts
        n == Cardinality(keys)
    IN  {order \in [1..n -> keys] :
            \A k1, k2 \in 1..n : order[k1] = order[k2] => k1 = k2}

\* CreateAggregateFromMessageCountMap with the test count >= 1 in place of
\* count > 1.
CreateAggregateFromMessageCountMap_FromOne(m, order) ==
    IF m.isNil THEN Nil
    ELSE LET countStr(count) ==
                 IF count >= 1
                 THEN " (repeated " \o ToString(count) \o " times)"
                 ELSE ""
             result ==
                 [k \in 1..Len(order) |->
                     errorsNew(FreshId + k,
                               order[k] \o countStr(m.counts[order[k]]))]
         IN  NewAggregate(result)

CreateAggregateFromMessageCountMap(m, order) ==
    IF m.isNil THEN Nil
    ELSE LET countStr(count) ==
                 IF count > 1
                 THEN " (repeated " \o ToString(count) \o " times)"
                 ELSE ""
             result ==
                 [k \in 1..Len(order) |->
                     errorsNew(FreshId + k,
                               order[k] \o countStr(m.counts[order[k]]))]
         IN  NewAggregate(result)

----------------------------------------------------------------------------
\* The caller's list

RECURSIVE Nodes(_)
Nodes(list) ==
    IF Len(list) = 0 THEN 0
    ELSE LET h == Head(list)
         IN  (IF IsAggregate(h) THEN 1 + Nodes(h.errs) ELSE 1) + Nodes(Tail(list))

NoCall == [op |-> "none"]

\* What a call returned: an error value, or a string, a bool or a list of
\* errors under a tag.
RetString(str) == [kind |-> "string", str |-> str]
RetBool(val) == [kind |-> "bool", val |-> val]
RetList(list) == [kind |-> "list", list |-> list]

Init ==
    /\ errlist = <<>>
    /\ call = NoCall
    /\ ret = Nil
    /\ gpc = "idle"
    /\ wpc = <<>>
    /\ errChan = <<>>
    /\ errs = <<>>
    /\ i = 0
    /\ sendOrder = <<>>
    /\ heap = <<>>
    /\ held = 0
    /\ made = <<>>
    /\ sets = <<>>
    /\ lastNamed = <<>>
    /\ popped = [of |-> {}, keys |-> <<>>]
    /\ commands = <<>>
    /\ app = [made |-> FALSE, commands |-> <<>>, runFunc |-> FALSE, cmd |-> Nil]
    /\ rpc = "idle"
    /\ ctxErr = Nil
    /\ timer = [state |-> "none", left |-> 0]
    /\ after = 0
    /\ lastDo = [kind |-> "none"]
    /\ elapsed = 0

\* The caller appends an error (or a nil entry) to its list.
AppendErr(e) ==
    /\ call = NoCall
    /\ Len(errlist) < MaxLen
    /\ Nodes(errlist) < MaxNodes
    /\ errlist' = Append(errlist, e)
    /\ UNCHANGED <<ovars, call, ret, gvars>>

Replace(list, lo, hi, e) ==
    SubSeq(list, 1, lo - 1) \o <<e>> \o SubSeq(list, hi + 1, Len(list))

\* The caller aggregates entries lo..hi of its list with NewAggregate and keeps
\* the result in their place.
Nest(lo, hi) ==
    /\ call = NoCall
    /\ Nodes(errlist) < MaxNodes
    /\ LET a == NewAggregate(SubSeq(errlist, lo, hi))
       IN  /\ a # Nil
           /\ errlist' = Replace(errlist, lo, hi, a)
    /\ UNCHANGED <<ovars, call, ret, gvars>>

\* The same with an Aggregate of another type.
NestExt(lo, hi) ==
    /\ call = NoCall
    /\ Nodes(errlist) < MaxNodes
    /\ \A k \in lo..hi : errlist[k] # Nil
    /\ errlist' = Replace(errlist, lo, hi, extAggregate(SubSeq(errlist, lo, hi)))
    /\ UNCHANGED <<ovars, call, ret, gvars>>

----------------------------------------------------------------------------
\* The calls. The caller makes one call on the list it has assembled.

CallNewAggregate ==
    /\ call = NoCall
    /\ call' = [op |-> "NewAggregate", list |-> errlist]
    /\ ret' = NewAggregate(errlist)
    /\ UNCHANGED <<ovars, errlist, gvars>>

CallError ==
    /\ call = NoCall
    /\ LET agg == NewAggregate(errlist)
       IN  /\ agg # Nil
           /\ call' = [op |-> "Error", agg |-> agg]
           /\ ret' = RetString(Error(agg))
    /\ UNCHANGED <<ovars, errlist, gvars>>

CallErrors ==
    /\ call = NoCall
    /\ LET agg == NewAggregate(errlist)
       IN  /\ agg # Nil
           /\ call' = [op |-> "Errors", agg |-> agg, list |-> errlist]
           /\ ret' = RetList(Errors(agg))
    /\ UNCHANGED <<ovars, errlist, gvars>>

Targets == Plain \cup {Nil}

CallIs(target) ==
    /\ call = NoCall
    /\ LET agg == NewAggregate(errlist)
       IN  /\ agg # Nil
           /\ call' = [op |-> "Is", agg |-> agg, target |-> target]
           /\ ret' = RetBool(aggregate_Is(agg.errs, target))
    /\ UNCHANGED <<ovars, errlist, gvars>>

\* The caller filters the aggregate of its list or, when the list has a single
\* entry, that entry as it is (nil, a plain error or an Aggregate).
FilterInputs ==
    {NewAggregate(errlist)} \cup (IF Len(errlist) = 1 THEN {errlist[1]} ELSE {})

CallFilterOut(err, fns) ==
    /\ call = NoCall
    /\ call' = [op |-> "FilterOut", err |-> err, fns |-> fns]
    /\ ret' = FilterOut(err, fns)
    /\ UNCHANGED <<ovars, errlist, gvars>>

CallFlatten ==
    /\ call = NoCall
    /\ LET agg == NewAggregate(errlist)
       IN  /\ call' = [op |-> "Flatten", agg |-> agg]
           /\ ret' = Flatten(agg)
    /\ UNCHANGED <<ovars, errlist, gvars>>

\* The caller reduces what it may filter or, before it has listed any error, an
\* Aggregate of another type whose Errors() is empty.
ReduceInputs ==
    FilterInputs \cup (IF errlist = <<>> THEN {extAggregate(<<>>)} ELSE {})

CallReduce(err) ==
    /\ call = NoCall
    /\ call' = [op |-> "Reduce", err |-> err]
    /\ ret' = Reduce(err)
    /\ UNCHANGED <<ovars, errlist, gvars>>

\* The caller converts a message-count map.
CallCreateAggregate(m, order) ==
    /\ call = NoCall
    /\ errlist = <<>>
    /\ call' = [op |-> "CreateAggregateFromMessageCountMap", m |-> m]
    /\ ret' = CreateAggregateFromMessageCountMap(m, order)
    /\ UNCHANGED <<ovars, errlist, gvars>>

----------------------------------------------------------------------------
\* AggregateGoroutines(funcs...). A function is modelled by the error it
\* returns. The calling goroutine makes the channel and starts one worker per
\* function, then receives cap(errChan) values and returns; each worker calls
\* its function and then sends what it returned.

FuncResults == {Nil, e1, e3}

FuncLists == UNION {[1..n -> FuncResults] : n \in 0..MaxFuncs}

\* errChan := make(chan error, len(funcs)); go func(f){...}(f) for each f
GoStart(funcs) ==
    /\ call = NoCall
    /\ errlist = <<>>
    /\ call' = [op |-> "AggregateGoroutines", funcs |-> funcs]
    /\ gpc' = "recv"
    /\ wpc' = [k \in 1..Len(funcs) |-> "started"]
    /\ errChan' = <<>>
    /\ errs' = <<>>
    /\ i' = 0
    /\ sendOrder' = <<>>
    /\ UNCHANGED <<ovars, errlist, ret>>

\* cap(errChan)
Cap == Len(call.funcs)

\* Worker k evaluates f().
WorkerCall(k) ==
    /\ gpc # "idle"
    /\ wpc[k] = "started"
    /\ wpc' = [wpc EXCEPT ![k] = "returned"]
    /\ UNCHANGED <<ovars, errlist, call, ret, gpc, errChan, errs, i, sendOrder>>

\* The send on a channel made with room for one value less than there are
\* functions.
WorkerSend_SmallerBuffer(k) ==
    /\ gpc # "idle"
    /\ wpc[k] = "returned"
    /\ Len(errChan) < Cap - 1
    /\ errChan' = Append(errChan, call.funcs[k])
    /\ wpc' = [wpc EXCEPT ![k] = "sent"]
    /\ sendOrder' = Append(sendOrder, k)
    /\ UNCHANGED <<ovars, errlist, call, ret, gpc, errs, i>>

\* Worker k sends the value on errChan; the send blocks while the buffer is full.
WorkerSend(k) ==
    /\ gpc # "idle"
    /\ wpc[k] = "returned"
    /\ Len(errChan) < Cap
    /\ errChan' = Append(errChan, call.funcs[k])
    /\ wpc' = [wpc EXCEPT ![k] = "sent"]
    /\ sendOrder' = Append(sendOrder, k)
    /\ UNCHANGED <<ovars, errlist, call, ret, gpc, errs, i>>

\* The receive loop putting each error it receives in front of those it holds.
MainRecv_Prepend ==
    /\ gpc = "recv"
    /\ i < Cap
    /\ Len(errChan) > 0
    /\ LET err == Head(errChan)
       IN  errs' = IF err # Nil THEN <<err>> \o errs ELSE errs
    /\ errChan' = Tail(errChan)
    /\ i' = i + 1
    /\ UNCHANGED <<ovars, errlist, call, ret, gpc, wpc, sendOrder>>

\* for i := 0; i < cap(errChan); i++ { if err := <-errChan; err != nil {...} }
MainRecv ==
    /\ gpc = "recv"
    /\ i < Cap
    /\ Len(errChan) > 0
    /\ LET err == Head(errChan)
       IN  errs' = IF err # Nil THEN Append(errs, err) ELSE errs
    /\ errChan' = Tail(errChan)
    /\ i' = i + 1
    /\ UNCHANGED <<ovars, errlist, call, ret, gpc, wpc, sendOrder>>

\* AggregateGoroutines leaving its receive loop as soon as it holds an error.
MainReturn_OnFirstError ==
    /\ gpc = "recv"
    /\ (~(i < Cap) \/ Len(errs) > 0)
    /\ ret' = NewAggregate(errs)
    /\ gpc' = "done"
    /\ UNCHANGED <<ovars, errlist, call, wpc, errChan, errs, i, sendOrder>>

\* return NewAggregate(errs)
MainReturn ==
    /\ gpc = "recv"
    /\ ~(i < Cap)
    /\ ret' = NewAggregate(errs)
    /\ gpc' = "done"
    /\ UNCHANGED <<ovars, errlist, call, wpc, errChan, errs, i, sendOrder>>

Next ==
    \/ \E e \in Plain \cup {Nil} : AppendErr(e)
    \/ \E lo \in 1..Len(errlist) : \E hi \in lo..Len(errlist) : Nest(lo, hi)
    \/ \E lo \in 1..Len(errlist) : \E hi \in lo..Len(errlist) : NestExt(lo, hi)
    \/ CallNewAggregate
    \/ CallError
    \/ CallErrors
    \/ \E target \in Targets : CallIs(target)
    \/ \E err \in FilterInputs : \E fns \in MatcherLists : CallFilterOut(err, fns)
    \/ CallFlatten
    \/ \E err \in ReduceInputs : CallReduce(err)
    \/ \E m \in MessageCountMaps : \E order \in RangeOrders(m) :
          CallCreateAggregate(m, order)
    \/ \E funcs \in FuncLists : GoStart(funcs)
    \/ \E k \in 1..Len(wpc) : WorkerCall(k)
    \/ \E k \in 1..Len(wpc) : WorkerSend(k)
    \/ MainRecv
    \/ MainReturn

Spec == Init /\ [][Next]_vars

\* AggregateGoroutines alone, with the scheduling the Go runtime gives: every
\* goroutine that can take a step eventually takes it, and every function that
\* was called eventually returns.
GoNext ==
    \/ \E funcs \in FuncLists : GoStart(funcs)
    \/ \E k \in 1..Len(wpc) : WorkerCall(k)
    \/ \E k \in 1..Len(wpc) : WorkerSend(k)
    \/ MainRecv
    \/ MainReturn

GoFairness ==
    /\ \A k \in 1..(MaxFuncs + 1) : WF_vars(k \in 1..Len(wpc) /\ WorkerCall(k))
    /\ \A k \in 1..(MaxFuncs + 1) : WF_vars(k \in 1..Len(wpc) /\ WorkerSend(k))
    /\ WF_vars(MainRecv)
    /\ WF_vars(MainReturn)

GoSpec == Init /\ [][GoNext]_vars /\ GoFairness

----------------------------------------------------------------------------
\* The aggregates in memory. A value of the type aggregate is a slice: heap
\* holds the backing arrays by address, sliceOf(arr) is the slice over the
\* whole of array arr, and an array's elements are plain errors and slices.
\* The functions below are the package's, with the arrays they allocate, read
\* and write; each returns the heap it leaves and its value.

MaxArrays == 2

sliceOf(arr) == [kind |-> "slice", arr |-> arr]

\* The error value v with every slice replaced by the aggregate of the errors
\* that its array holds in h.
RECURSIVE Deref(_, _)
Deref(h, v) ==
    IF v.kind = "slice"
    THEN aggregate([k \in 1..Len(h[v.arr]) |-> Deref(h, h[v.arr][k])])
    ELSE v

\* NewAggregate: errs is a new array, which append fills with the non-nil
\* entries of the list.
NewAggregateMem(h, list) ==
    IF Len(list) = 0 THEN [heap |-> h, val |-> Nil]
    ELSE LET kept == SelectSeq(list, LAMBDA e : e # Nil)
         IN  IF Len(kept) = 0 THEN [heap |-> h, val |-> Nil]
             ELSE [heap |-> Append(h, kept), val |-> sliceOf(Len(h) + 1)]

\* agg.Errors(): []error(agg), the slice over the same array.
ErrorsMem(agg) == agg.arr

RECURSIVE FilterOutMem(_, _, _), filterLoopMem(_, _, _)

\* The loop of filterErrors over the entries of list; result is a new array.
filterLoopMem(h, list, fns) ==
    IF Len(list) = 0 THEN [heap |-> h, list |-> <<>>]
    ELSE LET r == FilterOutMem(h, Head(list), fns)
             rest == filterLoopMem(r.heap, Tail(list), fns)
         IN  [heap |-> rest.heap,
              list |-> (IF r.val # Nil THEN <<r.val>> ELSE <<>>) \o rest.list]

\* filterErrors with result := list[:0] in place of result := []error{}: the
\* errors that are kept are written over the first entries of the list's array.
filterErrorsMem_InPlace(h, arr, fns) ==
    LET r == filterLoopMem(h, h[arr], fns)
        old == r.heap[arr]
    IN  [heap |-> [r.heap EXCEPT
                      ![arr] = r.list \o SubSeq(old, Len(r.list) + 1, Len(old))],
         list |-> r.list]

\* filterErrors(list, fns...), list being the slice over array arr.
filterErrorsMem(h, arr, fns) == filterLoopMem(h, h[arr], fns)

FilterOutMem(h, err, fns) ==
    IF err = Nil THEN [heap |-> h, val |-> Nil]
    ELSE IF err.kind = "slice"
    THEN LET r == filterErrorsMem(h, ErrorsMem(err), fns)
         IN  NewAggregateMem(r.heap, r.list)
    ELSE IF ~matchesError(err, fns) THEN [heap |-> h, val |-> err]
    ELSE [heap |-> h, val |-> Nil]

RECURSIVE FlattenMem(_, _), flattenLoopMem(_, _)

\* The loop of Flatten over the entries of list; result is a new array.
flattenLoopMem(h, list) ==
    IF Len(list) = 0 THEN [heap |-> h, list |-> <<>>]
    ELSE LET err == Head(list)
             here == IF err.kind = "slice"
                     THEN LET r == FlattenMem(h, err)
                          IN  [heap |-> r.heap,
                               list |-> IF r.val # Nil
                                        THEN r.heap[ErrorsMem(r.val)] ELSE <<>>]
                     ELSE [heap |-> h,
                           list |-> IF err # Nil THEN <<err>> ELSE <<>>]
             rest == flattenLoopMem(here.heap, Tail(list))
         IN  [heap |-> rest.heap, list |-> here.list \o rest.list]

FlattenMem(h, agg) ==
    IF agg = Nil THEN [heap |-> h, val |-> Nil]
    ELSE LET r == flattenLoopMem(h, h[ErrorsMem(agg)])
         IN  NewAggregateMem(r.heap, r.list)

\* Reduce allocates and writes nothing.
ReduceMem(h, err) ==
    IF err.kind = "slice"
    THEN CASE Len(h[ErrorsMem(err)]) = 1 -> h[ErrorsMem(err)][1]
           [] Len(h[ErrorsMem(err)]) = 0 -> Nil
           [] OTHER -> err
    ELSE err

\* The caller of the package with the aggregates it has constructed and the
\* list that Errors() gave it. The aggregate that FilterOut or Flatten returns
\* is in ret with the arrays the call allocated; the caller does not keep it.

\* What the caller passes to NewAggregate here: two errors, or an aggregate it
\* has, alone or followed by an error.
HeapLists ==
    {<<e2, e1>>} \cup
    UNION {{<<sliceOf(arr)>>, <<sliceOf(arr), e1>>} : arr \in 1..Len(heap)}

HeapMatcherLists == {<<>>, <<isE2>>}

\* The arrays of h as they were constructed: no entry has been overwritten.
AsMade(h) == \A arr \in 1..Len(made) : Deref(h, sliceOf(arr)) = made[arr]

\* The value val that a call returned with the arrays h has more than heap.
RetNew(h, val) ==
    IF val = Nil THEN Nil
    ELSE [kind |-> "new", val |-> val,
          arrays |-> SubSeq(h, Len(heap) + 1, Len(h))]

HNewAggregate(list) ==
    /\ Len(heap) < MaxArrays
    /\ LET r == NewAggregateMem(heap, list)
       IN  /\ heap' = r.heap
           /\ ret' = r.val
           /\ made' = Append(made, Deref(r.heap, r.val))
    /\ call' = [op |-> "NewAggregate", list |-> list]
    /\ UNCHANGED <<errlist, gvars, svars, xvars, held>>

HError(arr) ==
    /\ call' = [op |-> "Error", agg |-> arr]
    /\ ret' = RetString(Error(Deref(heap, sliceOf(arr))))
    /\ UNCHANGED <<errlist, gvars, svars, xvars, hvars>>

HIs(arr, target) ==
    /\ call' = [op |-> "Is", agg |-> arr, target |-> target]
    /\ ret' = RetBool(aggregate_Is(Deref(heap, sliceOf(arr)).errs, target))
    /\ UNCHANGED <<errlist, gvars, svars, xvars, hvars>>

\* The caller keeps the list that Errors() returns.
HErrors(arr) ==
    /\ call' = [op |-> "Errors", agg |-> arr]
    /\ held' = ErrorsMem(sliceOf(arr))
    /\ ret' = RetList(Deref(heap, sliceOf(held')).errs)
    /\ UNCHANGED <<errlist, gvars, svars, xvars, heap, made>>

HFilterOut(arr, fns) ==
    /\ LET r == FilterOutMem(heap, sliceOf(arr), fns)
       IN  /\ heap' = SubSeq(r.heap, 1, Len(heap))
           /\ ret' = RetNew(r.heap, r.val)
    /\ call' = [op |-> "FilterOut", agg |-> arr, fns |-> fns]
    /\ UNCHANGED <<errlist, gvars, svars, xvars, held, made>>

HFlatten(arr) ==
    /\ LET r == FlattenMem(heap, sliceOf(arr))
       IN  /\ heap' = SubSeq(r.heap, 1, Len(heap))
           /\ ret' = RetNew(r.heap, r.val)
    /\ call' = [op |-> "Flatten", agg |-> arr]
    /\ UNCHANGED <<errlist, gvars, svars, xvars, held, made>>

HReduce(arr) ==
    /\ call' = [op |-> "Reduce", agg |-> arr]
    /\ ret' = ReduceMem(heap, sliceOf(arr))
    /\ UNCHANGED <<errlist, gvars, svars, xvars, hvars>>

\* The caller assigns e to entry k of the list that Errors() gave it, once.
HOverwrite(k, e) ==
    /\ held # 0
    /\ AsMade(heap)
    /\ heap[held][k] # e
    /\ heap' = [heap EXCEPT ![held][k] = e]
    /\ call' = [op |-> "overwrite", k |-> k, e |-> e]
    /\ ret' = Nil
    /\ UNCHANGED <<errlist, gvars, svars, xvars, held, made>>

HeapNext ==
    \/ \E list \in HeapLists : HNewAggregate(list)
    \/ \E arr \in 1..Len(heap) : HError(arr)
    \/ \E arr \in 1..Len(heap) : \E target \in {e1, e3} : HIs(arr, target)
    \/ \E arr \in 1..Len(heap) : HErrors(arr)
    \/ \E arr \in 1..Len(heap) : \E fns \in HeapMatcherLists : HFilterOut(arr, fns)
    \/ \E arr \in 1..Len(heap) : HFlatten(arr)
    \/ \E arr \in 1..Len(heap) : HReduce(arr)
    \/ \E k \in 1..(IF held = 0 THEN 0 ELSE Len(heap[held])) : HOverwrite(k, e3)

HeapSpec == Init /\ [][HeapNext]_vars

----------------------------------------------------------------------------
\* String sets (src/errors/sets.go). A String is a map, a reference: sets holds
\* the key sets of the maps by address. The functions below take the maps h and
\* the addresses of their operands and return the maps they leave and their
\* value.

MaxSets == 2

Items == {"a", "b"}

\* The items of a call: items ...string
ItemLists == {<<>>} \cup {<<x>> : x \in Items} \cup (Items \X Items)

RECURSIVE StringInsert(_, _, _), StringDelete(_, _, _)

\* Insert that adds the items to a copy of the set and returns the copy.
StringInsert_Copy(h, s, items) ==
    [sets |-> Append(h, h[s] \cup {items[k] : k \in 1..Len(items)}),
     val |-> Len(h) + 1]

\* func (s String) Insert(items ...string) String
StringInsert(h, s, items) ==
    IF Len(items) = 0 THEN [sets |-> h, val |-> s]
    ELSE StringInsert([h EXCEPT ![s] = @ \cup {Head(items)}], s, Tail(items))

\* func (s String) Delete(items ...string) String
StringDelete(h, s, items) ==
    IF Len(items) = 0 THEN [sets |-> h, val |-> s]
    ELSE StringDelete([h EXCEPT ![s] = @ \ {Head(items)}], s, Tail(items))

\* func NewString(items ...string) String
NewString(h, items) == StringInsert(Append(h, {}), Len(h) + 1, items)

\* func (s String) Has(item string) bool
StringHas(h, s, item) == item \in h[s]

\* func (s String) Len() int
StringLen(h, s) == Cardinality(h[s])

\* for key := range keys { if <key is in keep> { result.Insert(key) } }: the
\* maps after the loop. The order in which range yields the keys does not
\* matter to the inserts.
RECURSIVE rangeInsert(_, _, _, _)
rangeInsert(h, keys, keep, result) ==
    IF keys = {} THEN h
    ELSE LET key == CHOOSE k \in keys : TRUE
             h1 == IF key \in keep THEN StringInsert(h, result, <<key>>).sets
                   ELSE h
         IN  rangeInsert(h1, keys \ {key}, keep, result)

\* func (s String) Difference(s2 String) String
StringDifference(h, s, s2) ==
    LET r == NewString(h, <<>>)
        result == r.val
        keep == {key \in h[s] : ~StringHas(r.sets, s2, key)}
    IN  [sets |-> rangeInsert(r.sets, h[s], keep, result), val |-> result]

\* Union that inserts the items of s2 into s and returns s.
StringUnion_InPlace(h, s, s2) ==
    [sets |-> rangeInsert(h, h[s2], h[s2], s), val |-> s]

\* func (s String) Union(s2 String) String
StringUnion(h, s, s2) ==
    LET r == NewString(h, <<>>)
        result == r.val
        h1 == rangeInsert(r.sets, h[s], h[s], result)
    IN  [sets |-> rangeInsert(h1, h[s2], h[s2], result), val |-> result]

\* Intersection whose else branch assigns other = s2: it walks s2 and looks the
\* keys up in s2 when s is not the smaller set.
StringIntersection_OtherIsWalk(h, s, s2) ==
    LET r == NewString(h, <<>>)
        result == r.val
        walk == IF StringLen(h, s) < StringLen(h, s2) THEN s ELSE s2
        keep == {key \in h[walk] : StringHas(r.sets, s2, key)}
    IN  [sets |-> rangeInsert(r.sets, h[walk], keep, result), val |-> result]

\* func (s String) Intersection(s2 String) String
StringIntersection(h, s, s2) ==
    LET r == NewString(h, <<>>)
        result == r.val
        walk == IF StringLen(h, s) < StringLen(h, s2) THEN s ELSE s2
        other == IF StringLen(h, s) < StringLen(h, s2) THEN s2 ELSE s
        keep == {key \in h[walk] : StringHas(r.sets, other, key)}
    IN  [sets |-> rangeInsert(r.sets, h[walk], keep, result), val |-> result]

\* func (s String) IsSuperset(s2 String) bool
StringIsSuperset(h, s, s2) == \A item \in h[s2] : StringHas(h, s, item)

\* func (s String) Equal(s2 String) bool
StringEqual(h, s, s2) ==
    StringLen(h, s) = StringLen(h, s2) /\ StringIsSuperset(h, s, s2)

\* The caller of the string sets with the sets it has made with NewString. The
\* set that Difference, Union or Intersection returns is in ret; the caller
\* does not keep it.

\* A set that a call returned: its address in h and the items it holds.
RetSet(h, val) == [kind |-> "set", set |-> val, members |-> h[val]]
RetInt(n) == [kind |-> "int", n |-> n]

\* named with op as the last call for each of the items.
NamedAfter(named, items, op) ==
    [x \in Items |-> IF \E k \in 1..Len(items) : items[k] = x THEN op
                     ELSE named[x]]

SNewString(items) ==
    /\ Len(sets) < MaxSets
    /\ LET r == NewString(sets, items)
       IN  /\ sets' = r.sets
           /\ ret' = RetSet(r.sets, r.val)
    /\ lastNamed' = Append(lastNamed,
                           NamedAfter([x \in Items |-> "none"], items, "Insert"))
    /\ call' = [op |-> "NewString", items |-> items]
    /\ UNCHANGED <<errlist, gvars, xvars, hvars>>

SInsert(s, items) ==
    /\ LET r == StringInsert(sets, s, items)
       IN  /\ sets' = r.sets
           /\ ret' = RetSet(r.sets, r.val)
    /\ lastNamed' = [lastNamed EXCEPT ![s] = NamedAfter(@, items, "Insert")]
    /\ call' = [op |-> "Insert", s |-> s, items |-> items]
    /\ UNCHANGED <<errlist, gvars, xvars, hvars>>

SDelete(s, items) ==
    /\ LET r == StringDelete(sets, s, items)
       IN  /\ sets' = r.sets
           /\ ret' = RetSet(r.sets, r.val)
    /\ lastNamed' = [lastNamed EXCEPT ![s] = NamedAfter(@, items, "Delete")]
    /\ call' = [op |-> "Delete", s |-> s, items |-> items]
    /\ UNCHANGED <<errlist, gvars, xvars, hvars>>

SHas(s, item) ==
    /\ call' = [op |-> "Has", s |-> s, item |-> item]
    /\ ret' = RetBool(StringHas(sets, s, item))
    /\ UNCHANGED <<errlist, gvars, xvars, hvars, svars>>

SLen(s) ==
    /\ call' = [op |-> "Len", s |-> s]
    /\ ret' = RetInt(StringLen(sets, s))
    /\ UNCHANGED <<errlist, gvars, xvars, hvars, svars>>

\* The caller's sets after a call that left the maps h, and the call's value.
SetAlgebra(op, s, s2, r) ==
    /\ sets' = SubSeq(r.sets, 1, Len(sets))
    /\ ret' = RetSet(r.sets, r.val)
    /\ call' = [op |-> op, s |-> s, s2 |-> s2]
    /\ UNCHANGED <<errlist, gvars, xvars, hvars, lastNamed>>

SDifference(s, s2) == SetAlgebra("Difference", s, s2, StringDifference(sets, s, s2))

SUnion(s, s2) == SetAlgebra("Union", s, s2, StringUnion(sets, s, s2))

SIntersection(s, s2) ==
    SetAlgebra("Intersection", s, s2, StringIntersection(sets, s, s2))

SEqual(s, s2) ==
    /\ call' = [op |-> "Equal", s |-> s, s2 |-> s2]
    /\ ret' = RetBool(StringEqual(sets, s, s2))
    /\ UNCHANGED <<errlist, gvars, xvars, hvars, svars>>

\* The caller evaluates s.Intersection(s2).Equal(s2.Intersection(s)) and keeps
\* neither intersection.
SIntersectionsEqual(s, s2) ==
    /\ LET r1 == StringIntersection(sets, s, s2)
           r2 == StringIntersection(r1.sets, s2, s)
       IN  /\ ret' = RetBool(StringEqual(r2.sets, r1.val, r2.val))
           /\ sets' = SubSeq(r2.sets, 1, Len(sets))
    /\ call' = [op |-> "IntersectionsEqual", s |-> s, s2 |-> s2]
    /\ UNCHANGED <<errlist, gvars, xvars, hvars, lastNamed>>

SetsNext ==
    \/ \E items \in ItemLists : SNewString(items)
    \/ \E s \in 1..Len(sets) : \E items \in ItemLists : SInsert(s, items)
    \/ \E s \in 1..Len(sets) : \E items \in ItemLists : SDelete(s, items)
    \/ \E s \in 1..Len(sets) : \E item \in Items : SHas(s, item)
    \/ \E s \in 1..Len(sets) : SLen(s)
    \/ \E s, s2 \in 1..Len(sets) : SDifference(s, s2)
    \/ \E s, s2 \in 1..Len(sets) : SUnion(s, s2)
    \/ \E s, s2 \in 1..Len(sets) : SIntersection(s, s2)
    \/ \E s, s2 \in 1..Len(sets) : SEqual(s, s2)
    \/ \E s, s2 \in 1..Len(sets) : SIntersectionsEqual(s, s2)

SetsSpec == Init /\ [][SetsNext]_vars

----------------------------------------------------------------------------
\* List and PopAny (src/errors/sets.go), on one set whose items are strings of
\* different lengths and cases. A Go string is a sequence of bytes.
ListItems == {"", "B", "a", "ab", "b"}

\* The number of items the caller hands to NewString.
MaxItems == 3

stringBytes(str) ==
    CASE str = "" -> <<>>
      [] str = "B" -> <<66>>
      [] str = "a" -> <<97>>
      [] str = "ab" -> <<97, 98>>
      [] str = "b" -> <<98>>

\* lhs < rhs on strings: the first differing byte decides, a proper prefix is
\* smaller.
RECURSIVE bytesLess(_, _)
bytesLess(lhs, rhs) ==
    IF rhs = <<>> THEN FALSE
    ELSE IF lhs = <<>> THEN TRUE
    ELSE IF Head(lhs) # Head(rhs) THEN Head(lhs) < Head(rhs)
    ELSE bytesLess(Tail(lhs), Tail(rhs))

\* func lessString(lhs, rhs string) bool
lessString(lhs, rhs) == bytesLess(stringBytes(lhs), stringBytes(rhs))

\* The orders in which range can yield the keys of a map.
KeyOrders(keys) ==
    {order \in [1..Cardinality(keys) -> keys] :
        \A j, k \in 1..Cardinality(keys) : j # k => order[j] # order[k]}

\* sort.Sort(res) with sortableSliceOfString's Less: the elements of res from
\* the smallest on. The keys of a map are distinct, so that the result does not
\* depend on the sorting algorithm.
RECURSIVE sortSort(_)
sortSort(res) ==
    IF Len(res) = 0 THEN <<>>
    ELSE LET m == CHOOSE j \in 1..Len(res) :
                      \A k \in 1..Len(res) : ~lessString(res[k], res[j])
         IN  <<res[m]>> \o sortSort(SubSeq(res, 1, m - 1) \o
                                    SubSeq(res, m + 1, Len(res)))

\* List without the call of sort.Sort.
StringList_Unsorted(h, s, order) == order

\* func (s String) List() []string, range yielding the keys in this order
StringList(h, s, order) == sortSort(order)

\* PopAny that returns the key it found without deleting it.
StringPopAny_NoDelete(h, s, order) ==
    IF Len(order) > 0 THEN [sets |-> h, key |-> order[1], ok |-> TRUE]
    ELSE [sets |-> h, key |-> "", ok |-> FALSE]

\* func (s String) PopAny() (string, bool), range yielding the keys in this
\* order
StringPopAny(h, s, order) ==
    IF Len(order) > 0
    THEN [sets |-> StringDelete(h, s, <<order[1]>>).sets, key |-> order[1],
          ok |-> TRUE]
    ELSE [sets |-> h, key |-> "", ok |-> FALSE]

ListItemLists ==
    UNION {[1..n -> ListItems] : n \in 0..MaxItems}

RetPop(key, ok) == [kind |-> "pop", key |-> key, ok |-> ok]

\* The caller makes its one set.
LNewString(items) ==
    /\ sets = <<>>
    /\ LET r == NewString(sets, items)
       IN  /\ sets' = r.sets
           /\ ret' = RetSet(r.sets, r.val)
           /\ popped' = [of |-> r.sets[r.val], keys |-> <<>>]
    /\ call' = [op |-> "NewString", items |-> items]
    /\ UNCHANGED <<errlist, gvars, hvars, lastNamed, avars, rvars>>

LList(s, order) ==
    /\ call' = [op |-> "List", s |-> s]
    /\ ret' = RetList(StringList(sets, s, order))
    /\ UNCHANGED <<errlist, gvars, hvars, svars, xvars>>

LPopAny(s, order) ==
    /\ LET r == StringPopAny(sets, s, order)
       IN  /\ sets' = r.sets
           /\ ret' = RetPop(r.key, r.ok)
           /\ popped' = IF r.ok THEN [popped EXCEPT !.keys = Append(@, r.key)]
                        ELSE popped
    /\ call' = [op |-> "PopAny", s |-> s]
    /\ UNCHANGED <<errlist, gvars, hvars, lastNamed, avars, rvars>>

ListNext ==
    \/ \E items \in ListItemLists : LNewString(items)
    \/ \E s \in 1..Len(sets) : \E order \in KeyOrders(sets[s]) : LList(s, order)
    \/ \E s \in 1..Len(sets) : \E order \in KeyOrders(sets[s]) : LPopAny(s, order)
    \/ \E s \in 1..Len(sets) : \E item \in ListItems : SHas(s, item)
    \/ \E s \in 1..Len(sets) : SLen(s)

ListSpec == Init /\ [][ListNext]_vars

----------------------------------------------------------------------------
\* IsValidPort (src/errors/stack.go, package net).

\* The literal that IsValidPort compares the port with.
PortLimit == 65535

\* The caller's port numbers lie this close to 0 or to the literal.
PortMargin == 30

Ports ==
    ((0 - PortMargin)..PortMargin)
        \cup ((PortLimit - PortMargin)..(PortLimit + PortMargin))

\* func IsValidPort(port int) bool
IsValidPort(port) == port > 0 /\ port < PortLimit

CallIsValidPort(port) ==
    /\ call' = [op |-> "IsValidPort", port |-> port]
    /\ ret' = RetBool(IsValidPort(port))
    /\ UNCHANGED <<errlist, gvars, ovars>>

PortNext == \E port \in Ports : CallIsValidPort(port)

PortSpec == Init /\ [][PortNext]_vars

----------------------------------------------------------------------------
\* Package app (src/app/app.go, src/app/cmd.go): the caller makes Commands and
\* one App, adds commands to both, and asks for the App's cobra command or
\* runs it. A Command's usage is a single word, which is the name cobra knows
\* its command by.

\* The number of Commands the caller makes.
MaxCommands == 2

Usages == {"start", "stop"}

\* func NewCommand(usage string, desc string, opts ...CommandOption) *Command,
\* with the option WithCommandRunFunc or without it
NewCommand(usage, withRunFunc) ==
    [usage |-> usage, commands |-> <<>>, runFunc |-> withRunFunc]

\* func (c *Command) cobraCommand() *cobra.Command
RECURSIVE cobraCommand(_, _)
cobraCommand(h, c) ==
    [use |-> h[c].usage,
     sub |-> [k \in 1..Len(h[c].commands) |-> cobraCommand(h, h[c].commands[k])],
     run |-> h[c].runFunc,
     help |-> FALSE]

\* The options of NewApp: WithRunFunc, and an Option of the caller's own that
\* calls AddCommand on the App it is given.
WithRunFunc == [option |-> "WithRunFunc"]
WithAddCommand(c) == [option |-> "AddCommand", cmd |-> c]

applyOption(a, o) ==
    IF o.option = "WithRunFunc" THEN [a EXCEPT !.runFunc = TRUE]
    ELSE [a EXCEPT !.commands = Append(@, o.cmd)]

RECURSIVE applyOptions(_, _)
applyOptions(a, opts) ==
    IF Len(opts) = 0 THEN a
    ELSE applyOptions(applyOption(a, Head(opts)), Tail(opts))

\* func (a *App) buildCommand(): the cobra command it stores in a.cmd
buildCommand(h, a) ==
    [use |-> "app",
     sub |-> [k \in 1..Len(a.commands) |-> cobraCommand(h, a.commands[k])],
     run |-> a.runFunc,
     help |-> Len(a.commands) > 0]

\* func NewApp(name string, basename string, opts ...Option) *App
NewApp(h, opts) ==
    LET a == applyOptions([made |-> TRUE, commands |-> <<>>, runFunc |-> FALSE,
                           cmd |-> Nil], opts)
    IN  [a EXCEPT !.cmd = buildCommand(h, a)]

\* cobra's Command.Find: the command that the leading arguments name, the way
\* to it from the root, and the arguments left.
RECURSIVE cobraFind(_, _, _)
cobraFind(cmd, path, args) ==
    IF /\ Len(args) > 0
       /\ \E k \in 1..Len(cmd.sub) : cmd.sub[k].use = Head(args)
    THEN LET k == CHOOSE j \in 1..Len(cmd.sub) :
                      /\ cmd.sub[j].use = Head(args)
                      /\ \A m \in 1..(j - 1) : cmd.sub[m].use # Head(args)
         IN  cobraFind(cmd.sub[k], Append(path, Head(args)), Tail(args))
    ELSE [cmd |-> cmd, path |-> path, args |-> args]

\* a.cmd.Execute() with these command-line arguments: the command that ran,
\* the help text of a command that cannot run, or the error for arguments that
\* name no sub-command of a root that has sub-commands.
cobraExecute(root, args) ==
    LET f == cobraFind(root, <<>>, args)
    IN  IF Len(f.path) = 0 /\ Len(root.sub) > 0 /\ Len(f.args) > 0
        THEN [kind |-> "run", outcome |-> "unknown command", path |-> f.path]
        ELSE IF f.cmd.run
        THEN [kind |-> "run", outcome |-> "ran", path |-> f.path]
        ELSE [kind |-> "run", outcome |-> "help", path |-> f.path]

RetCmd(cmd) == [kind |-> "cmd", cmd |-> cmd]

ANewCommand(usage, withRunFunc) ==
    /\ Len(commands) < MaxCommands
    /\ commands' = Append(commands, NewCommand(usage, withRunFunc))
    /\ call' = [op |-> "NewCommand", usage |-> usage]
    /\ ret' = RetInt(Len(commands) + 1)
    /\ UNCHANGED <<errlist, gvars, hvars, svars, lvars, rvars, app>>

\* func (c *Command) AddCommand(cmd *Command). The caller adds a command to
\* one it made earlier, so that no command comes to hold itself.
ACommandAddCommand(c, cmd) ==
    /\ c < cmd
    /\ \A k \in 1..Len(commands[c].commands) : commands[c].commands[k] # cmd
    /\ commands' = [commands EXCEPT ![c].commands = Append(@, cmd)]
    /\ call' = [op |-> "Command.AddCommand", c |-> c, cmd |-> cmd]
    /\ ret' = Nil
    /\ UNCHANGED <<errlist, gvars, hvars, svars, lvars, rvars, app>>

AppOptionLists ==
    {<<>>, <<WithRunFunc>>}
        \cup {<<WithAddCommand(c)>> : c \in 1..Len(commands)}
        \cup {<<WithRunFunc, WithAddCommand(c)>> : c \in 1..Len(commands)}

ANewApp(opts) ==
    /\ ~app.made
    /\ app' = NewApp(commands, opts)
    /\ call' = [op |-> "NewApp", opts |-> opts]
    /\ ret' = Nil
    /\ UNCHANGED <<errlist, gvars, hvars, svars, lvars, rvars, commands>>

\* func (a *App) AddCommand(cmd *Command)
AAddCommand(cmd) ==
    /\ app.made
    /\ \A k \in 1..Len(app.commands) : app.commands[k] # cmd
    /\ app' = [app EXCEPT !.commands = Append(@, cmd)]
    /\ call' = [op |-> "AddCommand", cmds |-> <<cmd>>]
    /\ ret' = Nil
    /\ UNCHANGED <<errlist, gvars, hvars, svars, lvars, rvars, commands>>

\* func (a *App) AddCommands(cmds ...*Command)
AAddCommands(cmds) ==
    /\ app.made
    /\ \A k \in 1..Len(app.commands) : \A j \in 1..Len(cmds) :
           app.commands[k] # cmds[j]
    /\ app' = [app EXCEPT !.commands = @ \o cmds]
    /\ call' = [op |-> "AddCommands", cmds |-> cmds]
    /\ ret' = Nil
    /\ UNCHANGED <<errlist, gvars, hvars, svars, lvars, rvars, commands>>

\* func (a *App) Command() *cobra.Command
ACommand ==
    /\ app.made
    /\ call' = [op |-> "Command"]
    /\ ret' = RetCmd(app.cmd)
    /\ UNCHANGED <<errlist, gvars, hvars, svars, xvars>>

\* func (a *App) Run(), the process having these command-line arguments
ARun(args) ==
    /\ app.made
    /\ call' = [op |-> "Run", args |-> args]
    /\ ret' = cobraExecute(app.cmd, args)
    /\ UNCHANGED <<errlist, gvars, hvars, svars, xvars>>

AppNext ==
    \/ \E usage \in Usages : \E withRunFunc \in BOOLEAN :
           ANewCommand(usage, withRunFunc)
    \/ \E c, cmd \in 1..Len(commands) : ACommandAddCommand(c, cmd)
    \/ \E opts \in AppOptionLists : ANewApp(opts)
    \/ \E cmd \in 1..Len(commands) : AAddCommand(cmd)
    \/ \E c, cmd \in 1..Len(commands) : c # cmd /\ AAddCommands(<<c, cmd>>)
    \/ ACommand
    \/ \E args \in {<<>>} \cup {<<usage>> : usage \in Usages} : ARun(args)

AppSpec == Init /\ [][AppNext]_vars

----------------------------------------------------------------------------
\* RetryUntilTimeout (src/pkg/util/fileutil/fileutil.go, package retryutil).
\* Time is counted in units of a duration; interval and timeout are not
\* negative.

\* The largest interval and the largest timeout the caller passes.
MaxInterval == 2
MaxTimeout == 2

RetryableErr == errorsNew(20, "retry")
TimeoutErr == errorsNew(21, "timeout")

\* ctx.Err() of a context that is done
Canceled == errorsNew(22, "context canceled")
DeadlineExceeded == errorsNew(23, "context deadline exceeded")

\* What do returns: nil, RetryableErr, an error that wraps RetryableErr,
\* another error, or TimeoutErr.
DoResults == {Nil, RetryableErr, fmtErrorfW(24, "", RetryableErr), e1, TimeoutErr}

\* attempt that retries on every error that errors.Is(err, RetryableErr).
attempt_ErrorsIs(err) ==
    err = Nil \/ (err # RetryableErr /\ err.wraps # RetryableErr.id)

\* attempt := func() (done bool, err error), do having returned err: done
attempt(err) == err = Nil \/ err # RetryableErr

\* The timer without the test timeout == 0.
NewTimer_NoZeroTest(timeout) == [state |-> "armed", left |-> timeout]

\* if timeout == 0 { timeout = time.Duration(1<<63 - 1) }
\* t := time.NewTimer(timeout)
\* A timer of the longest duration there is does not fire.
NewTimer(timeout) ==
    IF timeout = 0 THEN [state |-> "never", left |-> 0]
    ELSE [state |-> "armed", left |-> timeout]

\* <-t.C can proceed
TimerFired == timer.state = "armed" /\ timer.left = 0

RCall(interval, timeout, err) ==
    /\ rpc = "idle"
    /\ rpc' = "do"
    /\ ctxErr' = err
    /\ call' = [op |-> "RetryUntilTimeout", interval |-> interval,
                timeout |-> timeout]
    /\ UNCHANGED <<errlist, gvars, hvars, svars, lvars, avars, ret, timer,
                   after, lastDo, elapsed>>

\* do returns err. The first attempt, when it is not the last, is followed by
\* the making of the timer; every attempt that is not the last, by the select
\* statement with a new time.After(interval).
DoReturn(err) ==
    /\ rpc = "do"
    /\ lastDo' = err
    /\ IF attempt(err)
       THEN /\ rpc' = "returned"
            /\ ret' = err
            /\ UNCHANGED <<timer, after>>
       ELSE /\ rpc' = "select"
            /\ timer' = IF timer.state = "none" THEN NewTimer(call.timeout)
                        ELSE timer
            /\ after' = call.interval
            /\ UNCHANGED ret
    /\ UNCHANGED <<errlist, gvars, hvars, svars, lvars, avars, call, ctxErr,
                   elapsed>>

\* case <-ctx.Done(): return ctx.Err()
SelectCtxDone ==
    /\ rpc = "select"
    /\ ctxErr # Nil
    /\ rpc' = "returned"
    /\ ret' = ctxErr
    /\ UNCHANGED <<errlist, gvars, hvars, svars, lvars, avars, call, ctxErr,
                   timer, after, lastDo, elapsed>>

\* case <-t.C: return TimeoutErr
SelectTimer ==
    /\ rpc = "select"
    /\ TimerFired
    /\ rpc' = "returned"
    /\ ret' = TimeoutErr
    /\ UNCHANGED <<errlist, gvars, hvars, svars, lvars, avars, call, ctxErr,
                   timer, after, lastDo, elapsed>>

\* case <-time.After(interval): the next attempt begins
SelectAfter ==
    /\ rpc = "select"
    /\ after = 0
    /\ rpc' = "do"
    /\ UNCHANGED <<errlist, gvars, hvars, svars, lvars, avars, call, ret,
                   ctxErr, timer, after, lastDo, elapsed>>

\* ctx is cancelled or its deadline passes while the call is under way.
CtxDone(err) ==
    /\ rpc \in {"do", "select"}
    /\ ctxErr = Nil
    /\ ctxErr' = err
    /\ UNCHANGED <<errlist, gvars, hvars, svars, lvars, avars, call, ret, rpc,
                   timer, after, lastDo, elapsed>>

Decrement(n) == IF n > 0 THEN n - 1 ELSE 0

\* A unit of time passes, while do runs or while the goroutine is in, or on its
\* way into or out of, the select statement.
Tick ==
    /\ rpc \in {"do", "select"}
    /\ timer' = [timer EXCEPT !.left = Decrement(@)]
    /\ after' = Decrement(after)
    /\ elapsed' = IF elapsed < MaxTimeout THEN elapsed + 1 ELSE elapsed
    /\ UNCHANGED <<errlist, gvars, hvars, svars, lvars, avars, call, ret, rpc,
                   ctxErr, lastDo>>

RetryNext ==
    \/ \E interval \in 0..MaxInterval : \E timeout \in 0..MaxTimeout :
           \E err \in {Nil, Canceled, DeadlineExceeded} :
               RCall(interval, timeout, err)
    \/ \E err \in DoResults : DoReturn(err)
    \/ SelectCtxDone
    \/ SelectTimer
    \/ SelectAfter
    \/ \E err \in {Canceled, DeadlineExceeded} : CtxDone(err)
    \/ Tick

RetrySpec == Init /\ [][RetryNext]_vars

\* Time passes, do returns whenever it is called, and the select statement,
\* which chooses among the cases that can proceed at random, does not pass over
\* the timer's case for ever.
RetryFairness ==
    /\ WF_vars(Tick)
    /\ WF_vars(\E err \in DoResults : DoReturn(err))
    /\ SF_vars(SelectTimer)

RetryFairSpec == Init /\ [][RetryNext]_vars /\ RetryFairness

----------------------------------------------------------------------------
\* Definitions the properties are stated with.

\* list without its nil entries, in the same order.
RECURSIVE WithoutNil(_)
WithoutNil(list) ==
    IF Len(list) = 0 THEN <<>>
    ELSE LET last == list[Len(list)]
             front == WithoutNil(SubSeq(list, 1, Len(list) - 1))
         IN  IF last = Nil THEN front ELSE Append(front, last)

\* The leaf (non-aggregate, non-nil) errors of a list of errors, depth first,
\* left to right, through Aggregates of either type.
RECURSIVE LeavesOfList(_)
LeavesOfList(list) ==
    IF Len(list) = 0 THEN <<>>
    ELSE LET h == Head(list)
             here == IF h = Nil THEN <<>>
                     ELSE IF IsAggregate(h) THEN LeavesOfList(h.errs)
                     ELSE <<h>>
         IN  here \o LeavesOfList(Tail(list))

Leaves(err) == LeavesOfList(<<err>>)

\* msgs with every text kept at its first occurrence only.
RECURSIVE FirstOccurrences(_)
FirstOccurrences(msgs) ==
    IF Len(msgs) = 0 THEN <<>>
    ELSE LET last == msgs[Len(msgs)]
             front == FirstOccurrences(SubSeq(msgs, 1, Len(msgs) - 1))
         IN  IF \E k \in 1..Len(front) : front[k] = last THEN front
             ELSE Append(front, last)

RECURSIVE Join(_, _)
Join(msgs, sep) ==
    IF Len(msgs) = 0 THEN ""
    ELSE IF Len(msgs) = 1 THEN msgs[1]
    ELSE msgs[1] \o sep \o Join(Tail(msgs), sep)

\* The functions that return an Aggregate have returned.
ReturnedAggregate ==
    \/ call.op \in {"NewAggregate", "FilterOut", "Flatten",
                    "CreateAggregateFromMessageCountMap"}
    \/ call.op = "AggregateGoroutines" /\ gpc = "done"

----------------------------------------------------------------------------
\* C1: NewAggregate(L) is nil exactly when L is empty or holds only nil
\* entries, and every non-nil Aggregate that NewAggregate, FilterOut, Flatten,
\* CreateAggregateFromMessageCountMap or AggregateGoroutines returns holds at
\* least one error and no nil entry.
C1_NeverEmptyAggregate ==
    /\ call.op = "NewAggregate" =>
           (ret = Nil <=> \A k \in 1..Len(call.list) : call.list[k] = Nil)
    /\ (ReturnedAggregate /\ IsAggregate(ret)) =>
           /\ Len(ret.errs) >= 1
           /\ \A k \in 1..Len(ret.errs) : ret.errs[k] # Nil

\* NewAggregate was given a non-empty list of nil entries and returned nil.
C1_Witness ==
    /\ call.op = "NewAggregate"
    /\ Len(call.list) >= 2
    /\ \A k \in 1..Len(call.list) : call.list[k] = Nil
    /\ ret = Nil

\* C2: for a list L with a non-nil entry, NewAggregate(L).Errors() is L with
\* the nil entries removed, in the same order (L itself when it has none).
C2_ErrorsIsListWithoutNil ==
    call.op = "Errors" =>
        /\ ret.list = WithoutNil(call.list)
        /\ (\A k \in 1..Len(call.list) : call.list[k] # Nil) => ret.list = call.list

\* Errors() of the aggregate of a list with a nil entry between two errors.
C2_Witness ==
    /\ call.op = "Errors"
    /\ Len(call.list) = 3
    /\ call.list[2] = Nil
    /\ ret.list = <<call.list[1], call.list[3]>>
    /\ call.list[1] # call.list[3]

\* C3: for a non-nil error e, NewAggregate([e]).Error() is e.Error() verbatim,
\* without brackets.
C3_SingletonErrorVerbatim ==
    (call.op = "Error" /\ Len(call.agg.errs) = 1) =>
        LET e == call.agg.errs[1]
        IN  /\ ret.str = Error(e)
            /\ e.kind = "plain" => ret.str = e.msg

\* Error() of the aggregate of the single error e3.
C3_Witness ==
    /\ call.op = "Error"
    /\ call.agg.errs = <<e3>>
    /\ ret.str = "network timeout"

\* C4: Error() of an aggregate of two or more plain errors lists each distinct
\* message once, in the order of first occurrence, joined by ", ", in brackets
\* when two or more distinct messages remain and bare when one remains.
C4_DedupJoinBrackets ==
    (/\ call.op = "Error"
     /\ Len(call.agg.errs) >= 2
     /\ \A k \in 1..Len(call.agg.errs) : call.agg.errs[k].kind = "plain") =>
        LET msgs == [k \in 1..Len(call.agg.errs) |-> call.agg.errs[k].msg]
            distinct == FirstOccurrences(msgs)
        IN  /\ ret.str = IF Len(distinct) = 1 THEN distinct[1]
                         ELSE "[" \o Join(distinct, ", ") \o "]"
            /\ call.agg.errs = <<e1, e2, e3>> =>
                   ret.str = "[disk full, network timeout]"

\* Error() of the aggregate of "disk full", "disk full", "network timeout".
C4_Witness ==
    /\ call.op = "Error"
    /\ call.agg.errs = <<e1, e2, e3>>
    /\ ret.str = "[disk full, network timeout]"

\* C5: Error() traverses nested Aggregates transparently at any depth: for
\* every aggregate a, a.Error() is Flatten(a).Error(), so the bracketed text of
\* a nested aggregate never appears as a unit in the output.
C5_ErrorIsErrorOfFlatten ==
    call.op = "Error" => ret.str = Error(Flatten(call.agg))

\* C6: a.Is(t) is true exactly when t identity-matches a leaf error anywhere in
\* the nested structure of a.
C6_IsMatchesSomeLeaf ==
    call.op = "Is" =>
        LET leaves == Leaves(call.agg)
        IN  ret.val = (\E k \in 1..Len(leaves) : errorsIs(leaves[k], call.target))

\* Is() found its target two levels down, in an aggregate that holds nothing
\* else at the levels above.
C6_Witness ==
    /\ call.op = "Is"
    /\ ret.val = TRUE
    /\ Len(call.agg.errs) = 1
    /\ call.agg.errs[1].kind = "aggregate"
    /\ \E k \in 1..Len(call.agg.errs[1].errs) :
           /\ IsAggregate(call.agg.errs[1].errs[k])
           /\ \E j \in 1..Len(call.agg.errs[1].errs[k].errs) :
                  errorsIs(call.agg.errs[1].errs[k].errs[j], call.target)
    /\ \A k \in 1..Len(call.agg.errs[1].errs) :
           ~(call.agg.errs[1].errs[k].kind = "plain"
             /\ errorsIs(call.agg.errs[1].errs[k], call.target))

\* C7: Errors() returns the immediate top-level elements, neither flattened nor
\* deduplicated: every non-nil entry of the constructor's list is one element
\* of it, a nested Aggregate included, and there are as many elements as
\* non-nil entries even when Error() shows fewer messages.
C7_ErrorsTopLevelOnly ==
    call.op = "Errors" =>
        LET nonNil == {k \in 1..Len(call.list) : call.list[k] # Nil}
        IN  /\ Len(ret.list) = Cardinality(nonNil)
            /\ \A k \in nonNil : \E j \in 1..Len(ret.list) : ret.list[j] = call.list[k]
            /\ (\E k \in nonNil : IsAggregate(call.list[k])) =>
                   /\ \E j \in 1..Len(ret.list) : IsAggregate(ret.list[j])
                   /\ ret.list # Flatten(call.agg).errs

\* Errors() returns both of two errors with the same text, which Error() shows
\* once, and a nested aggregate as one element.
C7_Witness ==
    /\ call.op = "Errors"
    /\ ret.list = <<e1, aggregate(<<e2, e1>>)>>
    /\ Error(call.agg) = "disk full"

\* C8: FilterOut returns nil for nil; for a plain error nil if a matcher matches
\* it and the error itself otherwise; for an Aggregate an aggregate whose leaf
\* errors are the leaf errors of the input that no matcher matches, in their
\* order, and nil when no leaf is left.
C8_FilterOutKeepsUnmatchedLeaves ==
    call.op = "FilterOut" =>
        LET matched(e) == \E k \in 1..Len(call.fns) : Match(call.fns[k], e)
            left == SelectSeq(Leaves(call.err), LAMBDA e : ~matched(e))
        IN  /\ call.err = Nil => ret = Nil
            /\ call.err.kind = "plain" =>
                   ret = IF matched(call.err) THEN Nil ELSE call.err
            /\ IsAggregate(call.err) =>
                   IF Len(left) = 0 THEN ret = Nil
                   ELSE ret.kind = "aggregate" /\ Leaves(ret) = left

\* FilterOut removed a nested error and a top-level one and kept a nested one.
C8_Witness ==
    /\ call.op = "FilterOut"
    /\ call.fns = <<isE2, isTimeout>>
    /\ call.err = aggregate(<<aggregate(<<e2, e1>>), e3>>)
    /\ ret = aggregate(<<aggregate(<<e1>>)>>)

\* The wrappers of err all of the package's own type.
RECURSIVE AsPackageAggregate(_)
AsPackageAggregate(err) ==
    IF IsAggregate(err)
    THEN aggregate([k \in 1..Len(err.errs) |-> AsPackageAggregate(err.errs[k])])
    ELSE err

C10_FlattenIsLeaves ==
    call.op = "Flatten" =>
        IF call.agg = Nil THEN ret = Nil
        ELSE /\ ret.kind = "aggregate"
             /\ \A k \in 1..Len(ret.errs) : ~IsAggregate(ret.errs[k])
             /\ ret.errs = Leaves(call.agg)

\* Flatten of an aggregate nested two levels deep.
C10_Witness ==
    /\ call.op = "Flatten"
    /\ call.agg # Nil
    /\ \E k \in 1..Len(call.agg.errs) :
           /\ IsAggregate(call.agg.errs[k])
           /\ \E j \in 1..Len(call.agg.errs[k].errs) :
                  /\ IsAggregate(call.agg.errs[k].errs[j])
                  /\ Len(call.agg.errs[k].errs[j].errs) = 2
    /\ Len(ret.errs) = 3

\* C11: Flatten is idempotent: for every aggregate a, Flatten(a) is an
\* aggregate and Flatten(Flatten(a)).Errors() equals Flatten(a).Errors().
C11_FlattenIdempotent ==
    (call.op = "Flatten" /\ call.agg # Nil) =>
        /\ IsAggregate(ret)
        /\ IsAggregate(Flatten(ret))
        /\ Errors(Flatten(ret)) = Errors(ret)

\* Flatten was applied to an aggregate that holds an Aggregate which holds an
\* aggregate, so that its result differs from its argument.
C11_Witness ==
    /\ call.op = "Flatten"
    /\ call.agg # Nil
    /\ \E k \in 1..Len(call.agg.errs) :
           /\ IsAggregate(call.agg.errs[k])
           /\ \E j \in 1..Len(call.agg.errs[k].errs) :
                  IsAggregate(call.agg.errs[k].errs[j])
    /\ Errors(ret) # Errors(call.agg)
    /\ Errors(Flatten(ret)) = Errors(ret)

\* C12: Reduce(err) returns the sole element itself, not reduced further, when
\* err is an Aggregate of exactly one element, nil when err is an Aggregate of
\* no element, and err in every other case (an Aggregate of two or more
\* elements, a plain error, nil).
C12_ReduceSoleElement ==
    call.op = "Reduce" =>
        LET err == call.err
        IN  /\ (IsAggregate(err) /\ Len(err.errs) = 1) => ret = err.errs[1]
            /\ (IsAggregate(err) /\ Len(err.errs) = 0) => ret = Nil
            /\ (IsAggregate(err) /\ Len(err.errs) >= 2) => ret = err
            /\ ~IsAggregate(err) => ret = err

\* Reduce returned the sole element of an aggregate, itself an aggregate of a
\* single error.
C12_Witness ==
    /\ call.op = "Reduce"
    /\ call.err = aggregate(<<aggregate(<<e2>>)>>)
    /\ ret = aggregate(<<e2>>)

\* C13: CreateAggregateFromMessageCountMap(m) is nil for a nil or empty map and
\* otherwise an Aggregate with exactly one error for each distinct message of
\* m, whose text is the message followed by " (repeated N times)" when its
\* count N is greater than 1 and the message alone otherwise.
C13_OneErrorPerMessage ==
    call.op = "CreateAggregateFromMessageCountMap" =>
        LET m == call.m
            keys == DOMAIN m.counts
            text(key) == IF m.counts[key] > 1
                         THEN key \o " (repeated " \o ToString(m.counts[key]) \o " times)"
                         ELSE key
        IN  IF m.isNil \/ keys = {} THEN ret = Nil
            ELSE /\ ret.kind = "aggregate"
                 /\ Len(ret.errs) = Cardinality(keys)
                 /\ \A k \in 1..Len(ret.errs) : ret.errs[k].kind = "plain"
                 /\ \A key \in keys :
                        Cardinality({k \in 1..Len(ret.errs) :
                                        ret.errs[k].msg = text(key)}) = 1

\* A map with a message counted once and a message counted three times was
\* converted, the message counted once coming second.
C13_Witness ==
    /\ call.op = "CreateAggregateFromMessageCountMap"
    /\ ~call.m.isNil
    /\ DOMAIN call.m.counts = {"disk full", "network timeout"}
    /\ Len(ret.errs) = 2
    /\ ret.errs[1].msg = "network timeout (repeated 3 times)"
    /\ ret.errs[2].msg = "disk full"

\* The number of entries of list that are v.
Count(list, v) == Cardinality({k \in 1..Len(list) : list[k] = v})

\* C14: when AggregateGoroutines(f1..fN) returns, every one of the N functions
\* has been called and has returned, whatever the others returned, and the
\* result holds exactly the non-nil values the functions returned, one entry
\* for each failing function; it is nil when no function failed.
C14_AllRunAllCollected ==
    (call.op = "AggregateGoroutines" /\ gpc = "done") =>
        LET funcs == call.funcs
            failing == {k \in 1..Len(funcs) : funcs[k] # Nil}
        IN  /\ \A k \in 1..Len(funcs) : wpc[k] \in {"returned", "sent"}
            /\ IF failing = {} THEN ret = Nil
               ELSE /\ ret.kind = "aggregate"
                    /\ Len(ret.errs) = Cardinality(failing)
                    /\ \A k \in failing :
                           Count(ret.errs, funcs[k]) = Count(funcs, funcs[k])

\* AggregateGoroutines(f1, f2, f3) has returned the single error of f2; f1 and
\* f3 succeeded and have run.
C14_Witness ==
    /\ call.op = "AggregateGoroutines"
    /\ gpc = "done"
    /\ call.funcs = <<Nil, e3, Nil>>
    /\ ret = aggregate(<<e3>>)
    /\ \A k \in 1..3 : wpc[k] = "sent"

\* C15: AggregateGoroutines is a deadlock-free join barrier. The channel has
\* room for one value of every function, so a worker whose function has
\* returned can always send; when every function returns, the call returns,
\* after exactly N receives, with every worker past its send and the channel
\* empty; with no function it returns nil without receiving.
C15_JoinBarrier ==
    /\ [](\A k \in 1..Len(wpc) : wpc[k] = "returned" => ENABLED WorkerSend(k))
    /\ [](gpc = "done" =>
             /\ i = Len(call.funcs)
             /\ errChan = <<>>
             /\ \A k \in 1..Len(wpc) : wpc[k] = "sent")
    /\ []((gpc = "recv" /\ call.funcs = <<>>) => (ENABLED MainReturn /\ i = 0))
    /\ []((gpc = "done" /\ call.funcs = <<>>) => (ret = Nil /\ i = 0))
    /\ (gpc = "recv" ~> gpc = "done")

\* Every worker of three has sent before the caller has received anything: the
\* channel is full.
C15_Witness ==
    /\ call.op = "AggregateGoroutines"
    /\ gpc = "recv"
    /\ Len(call.funcs) = 3
    /\ Len(errChan) = 3
    /\ i = 0
    /\ \A k \in 1..3 : wpc[k] = "sent"

\* C16: the errors of the Aggregate that AggregateGoroutines returns are in the
\* order in which the workers' values were received from the channel, which is
\* the order in which the workers' sends completed, not the order in which the
\* functions were supplied.
C16_CompletionOrder ==
    (call.op = "AggregateGoroutines" /\ gpc = "done") =>
        LET received == [k \in 1..Len(sendOrder) |-> call.funcs[sendOrder[k]]]
        IN  /\ Len(sendOrder) = Len(call.funcs)
            /\ ret = NewAggregate(received)
            /\ ret # Nil => ret.errs = WithoutNil(received)

\* Two failing functions, the second of which completed first: the result has
\* their errors in the reverse of the order in which they were supplied.
C16_Witness ==
    /\ call.op = "AggregateGoroutines"
    /\ gpc = "done"
    /\ call.funcs = <<e1, e3>>
    /\ sendOrder = <<2, 1>>
    /\ ret = aggregate(<<e3, e1>>)

\* The operations of the package on an aggregate.
AggregateOps == {"Error", "Is", "Errors", "FilterOut", "Flatten", "Reduce"}

\* C17: no operation mutates an existing Aggregate: a call of Error, Is,
\* Errors, FilterOut, Flatten or Reduce leaves every array of every aggregate
\* that exists as it is, so that a.Errors() and the Errors() of every nested
\* aggregate are unchanged, and an Aggregate that FilterOut or Flatten returns
\* is made of new arrays only.
C17_NoOperationMutates ==
    [][call'.op \in AggregateOps =>
          /\ heap' = heap
          /\ \A arr \in 1..Len(heap) :
                 Deref(heap', sliceOf(arr)) = Deref(heap, sliceOf(arr))
          /\ ret'.kind = "new" =>
                 /\ ret'.val.arr > Len(heap)
                 /\ \A n \in 1..Len(ret'.arrays) :
                        \A k \in 1..Len(ret'.arrays[n]) :
                            ret'.arrays[n][k].kind = "slice" =>
                                ret'.arrays[n][k].arr > Len(heap)]_vars

\* FilterOut has rebuilt an aggregate and the aggregate nested in it as two new
\* arrays, and the aggregates that existed are as they were constructed.
C17_Witness ==
    /\ call.op = "FilterOut"
    /\ call.fns = <<isE2>>
    /\ heap[call.agg] = <<sliceOf(1), e1>>
    /\ ret.kind = "new"
    /\ ret.arrays = <<<<e1>>, <<sliceOf(Len(heap) + 1), e1>>>>
    /\ AsMade(heap)

\* C18: overwriting an entry of the list that a.Errors() returned does not
\* change what a later a.Errors(), a.Error() or a.Is() reports: each reports
\* what the aggregate held when it was constructed.
C18_OverwriteNotSeen ==
    /\ call.op = "Errors" => ret.list = made[call.agg].errs
    /\ call.op = "Error" => ret.str = Error(made[call.agg])
    /\ call.op = "Is" => ret.val = aggregate_Is(made[call.agg].errs, call.target)

\* C19: Difference, Union and Intersection on string sets are pure: the result
\* is a new set that holds the mathematical difference s \ s2, union and
\* intersection of the operands respectively, and both operands (every set that
\* exists) have the same members after the call as before it, also when the
\* operands are the same set.
C19_SetAlgebraPure ==
    [][call'.op \in {"Difference", "Union", "Intersection"} =>
          LET a == sets[call'.s]
              b == sets[call'.s2]
          IN  /\ ret'.kind = "set"
              /\ ret'.set > Len(sets)
              /\ call'.op = "Difference" => ret'.members = a \ b
              /\ call'.op = "Union" => ret'.members = a \cup b
              /\ call'.op = "Intersection" => ret'.members = a \cap b
              /\ sets' = sets]_vars

\* Union of two sets neither of which holds the other's item has returned a
\* new set of both items, and the operands are as they were.
C19_Witness ==
    /\ call.op = "Union"
    /\ call.s # call.s2
    /\ sets[call.s] = {"a"}
    /\ sets[call.s2] = {"b"}
    /\ ret.members = {"a", "b"}
    /\ ret.set > Len(sets)

\* C20: after any sequence of Insert and Delete calls on a string set made by
\* NewString, Has(x) is true exactly when the last call that named x was an
\* Insert (NewString's items count as inserted), Len() is the number of
\* distinct members, and Insert and Delete return the receiver itself, through
\* which the set's members after the call are seen. Deleting an absent item
\* therefore changes nothing.
C20_HasIffLastInsert ==
    LET members(s) == {x \in Items : lastNamed[s][x] = "Insert"}
    IN  /\ \A s \in 1..Len(lastNamed) :
               \A x \in Items : StringHas(sets, s, x) <=> x \in members(s)
        /\ call.op = "Has" => ret.val = (call.item \in members(call.s))
        /\ call.op = "Len" => ret.n = Cardinality(members(call.s))
        /\ call.op \in {"Insert", "Delete"} =>
               /\ ret.set = call.s
               /\ ret.members = members(call.s)
        /\ call.op = "NewString" =>
               ret.members = {call.items[k] : k \in 1..Len(call.items)}

\* Len() is 1 for a set whose two items were last named by an Insert and by a
\* Delete.
C20_Witness ==
    /\ call.op = "Len"
    /\ ret.n = 1
    /\ lastNamed[call.s] = [x \in Items |-> IF x = "a" THEN "Insert" ELSE "Delete"]
    /\ sets[call.s] = {"a"}

\* C21: Intersection is commutative: for all string sets a and b, of equal
\* size and empty ones included, a.Intersection(b).Equal(b.Intersection(a)) is
\* true, and Equal is true exactly when both sets have the same members.
C21_IntersectionCommutes ==
    /\ call.op = "IntersectionsEqual" => ret.val = TRUE
    /\ call.op = "Equal" => ret.val = (sets[call.s] = sets[call.s2])

\* The two intersections of two sets of one item each, neither holding the
\* other's, were found equal.
C21_Witness ==
    /\ call.op = "IntersectionsEqual"
    /\ sets[call.s] = {"a"}
    /\ sets[call.s2] = {"b"}
    /\ ret.val = TRUE

\* The items of ListItems from the smallest on, in lexicographic order of
\* their bytes.
Lexicographic == <<"", "B", "a", "ab", "b">>

InAscendingOrder(keys) == SelectSeq(Lexicographic, LAMBDA x : x \in keys)

\* C22: List() returns every member of the set exactly once, in ascending
\* lexicographic order; a repeated call on the set, not mutated in between,
\* returns the same sequence; List() does not change the set.
C22_ListSorted ==
    [][call'.op = "List" =>
          /\ ret'.list = InAscendingOrder(sets[call'.s])
          /\ sets' = sets
          /\ call.op = "List" => ret'.list = ret.list]_vars

\* List() has returned three members, an upper-case one, a lower-case one and
\* one that the lower-case one is a prefix of.
C22_Witness ==
    /\ call.op = "List"
    /\ sets[call.s] = {"ab", "a", "B"}
    /\ ret.list = <<"B", "a", "ab">>

Range(seq) == {seq[k] : k \in 1..Len(seq)}

\* C23: PopAny on a non-empty set returns (m, true) for a member m, which is
\* then no longer in the set, whose Len() has decreased by exactly one and
\* whose other members remain; on an empty set it returns ("", false) and
\* leaves the set empty, so that the flag tells a set holding "" from an empty
\* one; repeated PopAny empties a set of n members in exactly n successful
\* calls.
C23_PopAny ==
    sets # <<>> =>
        /\ Range(popped.keys) \subseteq popped.of
        /\ sets[1] = popped.of \ Range(popped.keys)
        /\ Len(popped.keys) + StringLen(sets, 1) = Cardinality(popped.of)
        /\ call.op = "PopAny" /\ ret.ok =>
              /\ ret.key = popped.keys[Len(popped.keys)]
              /\ ~StringHas(sets, 1, ret.key)
        /\ call.op = "PopAny" /\ ~ret.ok =>
              /\ ret.key = ""
              /\ sets[1] = {}
              /\ Len(popped.keys) = Cardinality(popped.of)

\* The third PopAny on a set of three members, the empty string among them,
\* has returned the empty string and emptied the set.
C23_Witness ==
    /\ call.op = "PopAny"
    /\ Cardinality(popped.of) = 3
    /\ Len(popped.keys) = 3
    /\ ret = RetPop("", TRUE)
    /\ sets[1] = {}

\* C25: IsValidPort returns false for 0 and for every number outside the port
\* range, and true for every legal port number, 1 to 65535.
C25_LegalPortsValid ==
    call.op = "IsValidPort" => ret.val = (call.port \in 1..65535)

\* C26: the list that filterErrors produces, and with it the Errors() of the
\* Aggregate that FilterOut returns for an Aggregate, has all nested lists
\* flattened: no element of it is an Aggregate, also when the input holds
\* nested Aggregates with surviving errors.
C26_FilteredListIsFlat ==
    (call.op = "FilterOut" /\ IsAggregate(call.err) /\ ret # Nil) =>
        \A k \in 1..Len(Errors(ret)) : ~IsAggregate(Errors(ret)[k])

\* C24: App.AddCommand and App.AddCommands add sub-commands to the
\* application: a command added to the App that NewApp returned is part of the
\* command tree that a.Command() returns, and it is the command that a.Run()
\* executes when the command line names it.
C24_AddedCommandInTree ==
    /\ call.op = "Command" =>
           \A k \in 1..Len(app.commands) :
               \E j \in 1..Len(ret.cmd.sub) :
                   ret.cmd.sub[j].use = commands[app.commands[k]].usage
    /\ (/\ call.op = "Run"
        /\ Len(call.args) = 1
        /\ \E k \in 1..Len(app.commands) :
               /\ commands[app.commands[k]].usage = call.args[1]
               /\ commands[app.commands[k]].runFunc)
           => ret.outcome = "ran" /\ ret.path = call.args

\* C27: RetryUntilTimeout invokes do at once when it is called, before any
\* wait and also when ctx is already done; it goes on to wait and retry only
\* after an attempt that returned exactly RetryableErr; an attempt that
\* returned nil or any other error ends the call with that result, and do is
\* not invoked again; the call returns that result, TimeoutErr or ctx.Err(),
\* never RetryableErr.
C27_RetryOnlyOnRetryableErr ==
    [][/\ (rpc = "idle" /\ rpc' # "idle") => (rpc' = "do" /\ elapsed' = 0)
       /\ (rpc = "do" /\ rpc' = "select") => lastDo' = RetryableErr
       /\ (rpc = "select" /\ rpc' = "do") => lastDo = RetryableErr
       /\ (rpc = "do" /\ lastDo' # RetryableErr /\ rpc' # "do") =>
              (rpc' = "returned" /\ ret' = lastDo')
       /\ rpc = "returned" => rpc' = "returned"
       /\ rpc' = "returned" =>
              /\ lastDo'.kind # "none"
              /\ ret' # RetryableErr
              /\ IF lastDo' # RetryableErr THEN ret' = lastDo'
                 ELSE ret' = TimeoutErr \/ (ret' = ctxErr' /\ ctxErr' # Nil)]_vars

\* Called with a context that was already cancelled, RetryUntilTimeout has
\* retried after RetryableErr and returned the error wrapping RetryableErr that
\* a later attempt gave.
C27_Witness ==
    /\ rpc = "returned"
    /\ ctxErr = Canceled
    /\ timer.state # "none"
    /\ ret = fmtErrorfW(24, "", RetryableErr)
    /\ ret = lastDo

\* C28: with timeout > 0 and a do that always returns, RetryUntilTimeout
\* eventually returns, also when do returns RetryableErr every time and ctx is
\* never done: it then returns TimeoutErr, and not before the timeout has
\* elapsed. With timeout == 0 the timeout is disabled: the call never returns
\* TimeoutErr for a timer, it ends only with the result of a last attempt or
\* with ctx.Err().
C28_TimeoutEndsRetrying ==
    /\ [](rpc = "returned" =>
            /\ (lastDo = RetryableErr /\ ctxErr = Nil) => ret = TimeoutErr
            /\ (lastDo = RetryableErr /\ ret = TimeoutErr) =>
                   (call.timeout > 0 /\ elapsed >= call.timeout)
            /\ call.timeout = 0 =>
                   \/ lastDo # RetryableErr /\ ret = lastDo
                   \/ ctxErr # Nil /\ ret = ctxErr)
    /\ (rpc = "do" /\ call.timeout > 0) ~> (rpc = "returned")

\* Every attempt returned RetryableErr and ctx was never done: with a timeout
\* of two units and no interval, RetryUntilTimeout has returned TimeoutErr.
C28_Witness ==
    /\ rpc = "returned"
    /\ call.timeout = 2
    /\ call.interval = 0
    /\ ctxErr = Nil
    /\ lastDo = RetryableErr
    /\ ret = TimeoutErr

====
